---- MODULE Spec2Model ----
(***************************************************************************)
(* A model of the theme engine of src/src/theme.ts: the color map, the     *)
(* rule parser, the resolution of parsed rules into a trie of style rules, *)
(* and the matching of a scope path against that trie.                     *)
(*                                                                         *)
(* A JavaScript string is a sequence of one-character strings, so that     *)
(* splitting, prefix tests, comparison and upper-casing are computed on    *)
(* the characters.  null is Null and undefined is Undefined: one-element   *)
(* sequences that no string equals.  A JavaScript array is a sequence       *)
(* whose element k+1 is the array's element k; a hole is Undefined.        *)
(***************************************************************************)
EXTENDS Integers, Sequences, FiniteSets, TLC

VARIABLES
    colorMap,       \* the ColorMap under construction or owned by the Theme
    calls,          \* SpecColorMap: the getId calls made so far, <<color, id>>
    palette,        \* the last value returned by getColorMap()
    rawTheme,       \* the raw theme given to createFromRawTheme
    colorMapArg,    \* the optional colorMap argument of createFromRawTheme
    pc,             \* where createFromRawTheme is: start, parsed, insert,
                    \* ready (the Theme exists), threw
    parsedThemeRules, \* the rule array parseTheme returned, later sorted
    idx,            \* the index i of the insertion loop
    defaults,       \* the Theme's default StyleInfo
    root,           \* the trie
    cache,          \* Theme._cache: scope name -> candidate list
    matched,        \* the last Theme.match call: its path and its result
    howDidThisHappen, \* whether 'how did this happen?' was ever logged
    first,          \* SpecRoundTrip: the theme compiled first
    mTarget,        \* SpecMatches: the scope path whose parent is matched
    mParentScopes,  \* SpecMatches: the ancestor constraint list
    mResult         \* SpecMatches: what _matches returned ("none" before)

vars == << colorMap, calls, palette, rawTheme, colorMapArg, pc,
          parsedThemeRules, idx, defaults, root, cache, matched,
          howDidThisHappen, first,
          mTarget, mParentScopes, mResult >>

(***************************************************************************)
(* JavaScript values                                                       *)
(***************************************************************************)
Null == <<"null">>
Undefined == <<"undefined">>
\* a null string[] (parentScopes)
NullArr == <<Null>>

\* The characters in use, in the order of their UTF-16 code units.
Chars ==
    << " ", "#", ",", ".",
       "0", "1", "2", "3", "4", "5", "6", "7", "8", "9",
       "A", "B", "C", "D", "E", "F", "G", "H", "I", "J", "K", "L", "M",
       "N", "O", "P", "Q", "R", "S", "T", "U", "V", "W", "X", "Y", "Z",
       "a", "b", "c", "d", "e", "f", "g", "h", "i", "j", "k", "l", "m",
       "n", "o", "p", "q", "r", "s", "t", "u", "v", "w", "x", "y", "z" >>

CharSet == {Chars[k] : k \in 1..Len(Chars)}

\* The rank of a character: the order of the code units is all that
\* string comparison reads.
charCode == [c \in CharSet |-> CHOOSE k \in 1..Len(Chars) : Chars[k] = c]

\* String.prototype.toUpperCase, one character
upperChar(c) ==
    IF charCode[c] >= charCode["a"] /\ charCode[c] <= charCode["z"]
    THEN Chars[charCode[c] - (charCode["a"] - charCode["A"])]
    ELSE c

\* String.prototype.toUpperCase
toUpperCase(s) == [k \in 1..Len(s) |-> upperChar(s[k])]

\* The property key of a value used as an object index: undefined is the
\* string 'undefined'.
toPropertyKey(v) ==
    IF v = Undefined THEN <<"u", "n", "d", "e", "f", "i", "n", "e", "d">> ELSE v

\* a[k] = v on an array (k counted from 0): the array grows, leaving holes
arraySet(arr, k, v) ==
    [j \in 1..(IF Len(arr) > k + 1 THEN Len(arr) ELSE k + 1) |->
        IF j = k + 1 THEN v
        ELSE IF j <= Len(arr) THEN arr[j]
        ELSE Undefined]

\* The sequences over S of length at most n.
SeqUpTo(S, n) == UNION {[1..k -> S] : k \in 0..n}

\* Scope names in use
sA == <<"a">>
sB == <<"b">>
sC == <<"c">>
sP == <<"p">>
sX == <<"x">>
sAB == <<"a", "b">>
sAdotB == <<"a", ".", "b">>
sBdotX == <<"b", ".", "x">>
sABC == <<"a", ".", "b", ".", "c">>

(***************************************************************************)
(* ScopePath and _matches                                                  *)
(***************************************************************************)
\* A ScopePath is the sequence of its segments, outermost first, as given
\* to ScopePath.from; the null path is the empty sequence.
ScopePathFrom(segments) == segments
ScopePathParent(p) == SubSeq(p, 1, Len(p) - 1)
ScopePathScopeName(p) == p[Len(p)]

\* s.substring(0, n)
substring0(s, n) == SubSeq(s, 1, IF n < Len(s) THEN n ELSE Len(s))

\* _matchesScope
matchesScope(scope, selector, selectorWithDot) ==
    \/ selector = scope
    \/ substring0(scope, Len(selectorWithDot)) = selectorWithDot

\* parentScopes[index], undefined past the end
selectorAt(parentScopes, index) ==
    IF index < Len(parentScopes) THEN parentScopes[index + 1] ELSE Undefined

\* The while loop of _matches, with `selector` being parentScopes[index].
RECURSIVE matchesLoop(_, _, _)
matchesLoop(target, parentScopes, index) ==
    IF target = <<>> THEN FALSE
    ELSE LET selector == selectorAt(parentScopes, index)
             selectorWithDot == toPropertyKey(selector) \o <<".">>
         IN  IF matchesScope(ScopePathScopeName(target), selector, selectorWithDot)
             THEN IF index + 1 = Len(parentScopes)
                  THEN TRUE
                  ELSE matchesLoop(ScopePathParent(target), parentScopes, index + 1)
             ELSE matchesLoop(ScopePathParent(target), parentScopes, index)

\* A faulty variant of matches: the constraints must align with the nearest
\* ancestors one by one, a non-matching ancestor is a failure.
RECURSIVE matchesAlignedLoop(_, _, _)
matchesAlignedLoop(target, parentScopes, index) ==
    IF target = <<>> THEN FALSE
    ELSE LET selector == selectorAt(parentScopes, index)
             selectorWithDot == toPropertyKey(selector) \o <<".">>
         IN  /\ matchesScope(ScopePathScopeName(target), selector, selectorWithDot)
             /\ \/ index + 1 = Len(parentScopes)
                \/ matchesAlignedLoop(ScopePathParent(target), parentScopes, index + 1)

matchesAligned(target, parentScopes) ==
    IF parentScopes = NullArr THEN TRUE
    ELSE matchesAlignedLoop(target, parentScopes, 0)

\* _matches(target, parentScopes)
matches(target, parentScopes) ==
    IF parentScopes = NullArr THEN TRUE
    ELSE matchesLoop(target, parentScopes, 0)

(***************************************************************************)
(* String helpers of the rule parser                                       *)
(***************************************************************************)
\* s.indexOf(ch), counted from 0, -1 when absent
indexOf(s, ch) ==
    IF \E k \in 1..Len(s) : s[k] = ch
    THEN (CHOOSE k \in 1..Len(s) : s[k] = ch /\ \A m \in 1..(k - 1) : s[m] # ch) - 1
    ELSE -1

\* s.substring(from)
substringFrom(s, from) == SubSeq(s, from + 1, Len(s))

\* s.split(sep) for a one-character separator
RECURSIVE split(_, _)
split(s, sep) ==
    LET k == indexOf(s, sep)
    IN  IF k = -1 THEN <<s>>
        ELSE <<substring0(s, k)>> \o split(substringFrom(s, k + 1), sep)

\* s.replace(/^[ch]+/, '')
RECURSIVE stripLeading(_, _)
stripLeading(s, ch) ==
    IF s # <<>> /\ s[1] = ch THEN stripLeading(Tail(s), ch) ELSE s

\* s.replace(/[ch]+$/, '')
RECURSIVE stripTrailing(_, _)
stripTrailing(s, ch) ==
    IF s # <<>> /\ s[Len(s)] = ch
    THEN stripTrailing(SubSeq(s, 1, Len(s) - 1), ch) ELSE s

\* s.trim(): the only white space in use is the space
trim(s) == stripTrailing(stripLeading(s, " "), " ")

\* arr.reverse()
reverse(arr) == [k \in 1..Len(arr) |-> arr[Len(arr) + 1 - k]]

\* a | b on small non-negative integers
RECURSIVE bitOr(_, _)
bitOr(a, b) ==
    IF a = 0 THEN b
    ELSE IF b = 0 THEN a
    ELSE (IF a % 2 = 1 \/ b % 2 = 1 THEN 1 ELSE 0) + 2 * bitOr(a \div 2, b \div 2)

\* a < b on strings: by code units, a proper prefix is smaller
RECURSIVE strLess(_, _)
strLess(a, b) ==
    IF b = <<>> THEN FALSE
    ELSE IF a = <<>> THEN TRUE
    ELSE IF a[1] = b[1] THEN strLess(Tail(a), Tail(b))
    ELSE charCode[a[1]] < charCode[b[1]]

\* utils.strcmp
strcmp(a, b) == IF strLess(a, b) THEN -1 ELSE IF strLess(b, a) THEN 1 ELSE 0

\* utils.strArrCmp: null sorts first, then element by element, a proper
\* prefix is smaller
RECURSIVE strArrCmpLoop(_, _)
strArrCmpLoop(a, b) ==
    IF a = <<>> /\ b = <<>> THEN 0
    ELSE IF a = <<>> THEN -1
    ELSE IF b = <<>> THEN 1
    ELSE IF strcmp(a[1], b[1]) # 0 THEN strcmp(a[1], b[1])
    ELSE strArrCmpLoop(Tail(a), Tail(b))

strArrCmp(a, b) ==
    IF a = NullArr /\ b = NullArr THEN 0
    ELSE IF a = NullArr THEN -1
    ELSE IF b = NullArr THEN 1
    ELSE strArrCmpLoop(a, b)

HexDigits ==
    { "0", "1", "2", "3", "4", "5", "6", "7", "8", "9",
      "a", "b", "c", "d", "e", "f", "A", "B", "C", "D", "E", "F" }

\* utils.isValidHexColor: '#' and 3, 4, 6 or 8 hex digits
isValidHexColor(hex) ==
    /\ Len(hex) \in {4, 5, 7, 9}
    /\ hex[1] = "#"
    /\ \A k \in 2..Len(hex) : hex[k] \in HexDigits

(***************************************************************************)
(* FontStyle and parseTheme                                                *)
(***************************************************************************)
FontStyleNotSet == -1
FontStyleNone == 0
FontStyleItalic == 1
FontStyleBold == 2
FontStyleUnderline == 4
FontStyleStrikethrough == 8

wItalic == <<"i", "t", "a", "l", "i", "c">>
wBold == <<"b", "o", "l", "d">>
wUnderline == <<"u", "n", "d", "e", "r", "l", "i", "n", "e">>
wStrikethrough ==
    <<"s", "t", "r", "i", "k", "e", "t", "h", "r", "o", "u", "g", "h">>

\* The switch over one segment of settings.fontStyle
RECURSIVE parseFontStyleSegments(_, _)
parseFontStyleSegments(segments, fontStyle) ==
    IF segments = <<>> THEN fontStyle
    ELSE LET segment == segments[1]
             next == IF segment = wItalic THEN bitOr(fontStyle, FontStyleItalic)
                     ELSE IF segment = wBold THEN bitOr(fontStyle, FontStyleBold)
                     ELSE IF segment = wUnderline
                         THEN bitOr(fontStyle, FontStyleUnderline)
                     ELSE IF segment = wStrikethrough
                         THEN bitOr(fontStyle, FontStyleStrikethrough)
                     ELSE fontStyle
         IN  parseFontStyleSegments(Tail(segments), next)

\* settings.fontStyle to a bitmask; a value that is no string is NotSet
parseFontStyle(fontStyle) ==
    IF fontStyle = Undefined THEN FontStyleNotSet
    ELSE parseFontStyleSegments(split(fontStyle, " "), FontStyleNone)

\* settings.foreground or settings.background: null unless a valid hex color
parseColor(color) ==
    IF color # Undefined /\ isValidHexColor(color) THEN color ELSE Null

\* A raw entry is [hasSettings, scope, fontStyle, foreground, background]:
\* scope is a ScopePattern string or Undefined, each setting a string or
\* Undefined.  (A scope given as an array of patterns is not modelled.)
entryScopes(entry) ==
    IF entry.scope # Undefined
    THEN split(stripTrailing(stripLeading(entry.scope, ","), ","), ",")
    ELSE << <<>> >>

ParsedThemeRule(scope, parentScopes, index, fontStyle, foreground, background) ==
    [ scope |-> scope, parentScopes |-> parentScopes, index |-> index,
      fontStyle |-> fontStyle, foreground |-> foreground,
      background |-> background ]

\* The rule of one scope alternative of the entry at index i
parseScope(_scope, i, fontStyle, foreground, background) ==
    LET segments == split(trim(_scope), " ")
        scope == segments[Len(segments)]
        parentScopes ==
            IF Len(segments) > 1
            THEN reverse(SubSeq(segments, 1, Len(segments) - 1))
            ELSE NullArr
    IN  ParsedThemeRule(scope, parentScopes, i, fontStyle, foreground, background)

\* The rules of the entry at index i (counted from 0)
parseEntry(entry, i) ==
    IF ~entry.hasSettings THEN <<>>
    ELSE LET scopes == entryScopes(entry)
             fontStyle == parseFontStyle(entry.fontStyle)
             foreground == parseColor(entry.foreground)
             background == parseColor(entry.background)
         IN  [j \in 1..Len(scopes) |->
                 parseScope(scopes[j], i, fontStyle, foreground, background)]

RECURSIVE parseSettings(_, _)
parseSettings(settings, i) ==
    IF i = Len(settings) THEN <<>>
    ELSE parseEntry(settings[i + 1], i) \o parseSettings(settings, i + 1)

\* parseTheme(source); a source that is undefined or whose settings are no
\* array has isTheme FALSE
parseTheme(source) ==
    IF ~source.isTheme THEN <<>> ELSE parseSettings(source.settings, 0)

(***************************************************************************)
(* ThemeTrieElementRule and ThemeTrieElement                               *)
(***************************************************************************)
ThemeTrieElementRule(scopeDepth, parentScopes, fontStyle, foreground, background) ==
    [ scopeDepth |-> scopeDepth, parentScopes |-> parentScopes,
      fontStyle |-> fontStyle, foreground |-> foreground,
      background |-> background ]

\* ThemeTrieElementRule.clone
cloneRule(rule) ==
    ThemeTrieElementRule(rule.scopeDepth, rule.parentScopes, rule.fontStyle,
                         rule.foreground, rule.background)

\* ThemeTrieElementRule.cloneArr
cloneArr(arr) == [k \in 1..Len(arr) |-> cloneRule(arr[k])]

\* A faulty variant of acceptOverwrite: the depth test is the wrong way round.
acceptOverwriteFlipped(rule, scopeDepth, fontStyle, foreground, background) ==
    LET logged == rule.scopeDepth < scopeDepth
    IN  [ rule |-> [ rule EXCEPT
              !.scopeDepth = IF logged THEN @ ELSE scopeDepth,
              !.fontStyle = IF fontStyle # FontStyleNotSet THEN fontStyle ELSE @,
              !.foreground = IF foreground # 0 THEN foreground ELSE @,
              !.background = IF background # 0 THEN background ELSE @ ],
          logged |-> logged ]

\* A faulty variant of acceptOverwrite: the whole record is overwritten, unset
\* fields included.
acceptOverwriteWhole(rule, scopeDepth, fontStyle, foreground, background) ==
    LET logged == rule.scopeDepth > scopeDepth
    IN  [ rule |-> [ rule EXCEPT
              !.scopeDepth = IF logged THEN @ ELSE scopeDepth,
              !.fontStyle = fontStyle,
              !.foreground = foreground,
              !.background = background ],
          logged |-> logged ]

\* ThemeTrieElementRule.acceptOverwrite: the rule afterwards, and whether
\* 'how did this happen?' was logged.
acceptOverwrite(rule, scopeDepth, fontStyle, foreground, background) ==
    LET logged == rule.scopeDepth > scopeDepth
    IN  [ rule |-> [ rule EXCEPT
              !.scopeDepth = IF logged THEN @ ELSE scopeDepth,
              !.fontStyle = IF fontStyle # FontStyleNotSet THEN fontStyle ELSE @,
              !.foreground = IF foreground # 0 THEN foreground ELSE @,
              !.background = IF background # 0 THEN background ELSE @ ],
          logged |-> logged ]

\* A trie is a function from node paths (the segments from the root) to
\* nodes; a node has a child for segment h exactly when the path extended
\* by h is in the trie's domain.
ThemeTrieElement(mainRule, rulesWithParentScopes) ==
    [mainRule |-> mainRule, rulesWithParentScopes |-> rulesWithParentScopes]

RootPath == <<>>

\* The loop of _cmpBySpecificity over the first len parent scopes: the
\* value returned inside the loop, 0 when the loop ends without returning
RECURSIVE cmpParentScopeLengths(_, _, _, _)
cmpParentScopeLengths(aParentScopes, bParentScopes, i, len) ==
    IF i > len THEN 0
    ELSE LET aLen == Len(aParentScopes[i])
             bLen == Len(bParentScopes[i])
         IN  IF aLen # bLen THEN bLen - aLen
             ELSE cmpParentScopeLengths(aParentScopes, bParentScopes, i + 1, len)

\* ThemeTrieElement._cmpBySpecificity
cmpBySpecificity(a, b) ==
    IF a.scopeDepth = b.scopeDepth
    THEN LET aParentScopesLen ==
                 IF a.parentScopes = NullArr THEN 0 ELSE Len(a.parentScopes)
             bParentScopesLen ==
                 IF b.parentScopes = NullArr THEN 0 ELSE Len(b.parentScopes)
             inLoop ==
                 IF aParentScopesLen = bParentScopesLen
                 THEN cmpParentScopeLengths(a.parentScopes, b.parentScopes, 1,
                                            aParentScopesLen)
                 ELSE 0
         IN  IF inLoop # 0 THEN inLoop
             ELSE bParentScopesLen - aParentScopesLen
    ELSE b.scopeDepth - a.scopeDepth

\* Array.prototype.sort with the comparator: a stable sort, here by
\* insertion of each element after the last one not greater than it.
RECURSIVE insertBySpecificity(_, _)
insertBySpecificity(sorted, x) ==
    IF sorted = <<>> THEN <<x>>
    ELSE IF cmpBySpecificity(sorted[Len(sorted)], x) <= 0 THEN Append(sorted, x)
    ELSE Append(insertBySpecificity(SubSeq(sorted, 1, Len(sorted) - 1), x),
                sorted[Len(sorted)])

RECURSIVE sortRulesBySpecificity(_)
sortRulesBySpecificity(arr) ==
    IF arr = <<>> THEN <<>>
    ELSE insertBySpecificity(
             sortRulesBySpecificity(SubSeq(arr, 1, Len(arr) - 1)), arr[Len(arr)])

\* ThemeTrieElement._sortBySpecificity
sortBySpecificity(arr) ==
    IF Len(arr) = 1 THEN arr ELSE sortRulesBySpecificity(arr)

\* A faulty variant of nodeCandidates: the main rule is left out when the node
\* has rules with parent scopes.
nodeCandidatesNoMain(node) ==
    IF node.rulesWithParentScopes = <<>>
    THEN <<node.mainRule>>
    ELSE sortBySpecificity(node.rulesWithParentScopes)

\* The candidate list of a node: [].concat(_mainRule).concat(
\* _rulesWithParentScopes), sorted by specificity
nodeCandidates(node) ==
    sortBySpecificity(<<node.mainRule>> \o node.rulesWithParentScopes)

\* The head and the tail of a scope at its first dot
scopeHead(scope) ==
    IF indexOf(scope, ".") = -1 THEN scope
    ELSE substring0(scope, indexOf(scope, "."))

scopeTail(scope) ==
    IF indexOf(scope, ".") = -1 THEN <<>>
    ELSE substringFrom(scope, indexOf(scope, ".") + 1)

\* A faulty variant of trieMatch: a scope with no node of its own gets the
\* candidates of the root, not of the deepest node reached.
RECURSIVE trieMatchExact(_, _, _)
trieMatchExact(trie, path, scope) ==
    IF scope = <<>> THEN nodeCandidates(trie[path])
    ELSE IF Append(path, scopeHead(scope)) \in DOMAIN trie
    THEN trieMatchExact(trie, Append(path, scopeHead(scope)), scopeTail(scope))
    ELSE nodeCandidates(trie[RootPath])

\* ThemeTrieElement.match(scope) on the node at `path`
RECURSIVE trieMatch(_, _, _)
trieMatch(trie, path, scope) ==
    IF scope = <<>> THEN nodeCandidates(trie[path])
    ELSE IF Append(path, scopeHead(scope)) \in DOMAIN trie
    THEN trieMatch(trie, Append(path, scopeHead(scope)), scopeTail(scope))
    ELSE nodeCandidates(trie[path])

\* The first rule of the list whose parentScopes equal the given ones, 0
\* when there is none
findRuleIndex(rules, parentScopes) ==
    IF \E k \in 1..Len(rules) : strArrCmp(rules[k].parentScopes, parentScopes) = 0
    THEN CHOOSE k \in 1..Len(rules) :
             /\ strArrCmp(rules[k].parentScopes, parentScopes) = 0
             /\ \A m \in 1..(k - 1) :
                    strArrCmp(rules[m].parentScopes, parentScopes) # 0
    ELSE 0

\* ThemeTrieElement._doInsertHere: the node afterwards, and whether
\* acceptOverwrite logged
doInsertHere(node, scopeDepth, parentScopes, fontStyle, foreground, background) ==
    IF parentScopes = NullArr
    THEN LET r == acceptOverwrite(node.mainRule, scopeDepth, fontStyle,
                                  foreground, background)
         IN  [node |-> [node EXCEPT !.mainRule = r.rule], logged |-> r.logged]
    ELSE LET k == findRuleIndex(node.rulesWithParentScopes, parentScopes)
         IN  IF k # 0
             THEN LET r == acceptOverwrite(node.rulesWithParentScopes[k],
                                           scopeDepth, fontStyle, foreground,
                                           background)
                  IN  [ node |-> [node EXCEPT !.rulesWithParentScopes[k] = r.rule],
                        logged |-> r.logged ]
             ELSE [ node |-> [ node EXCEPT !.rulesWithParentScopes =
                        Append(@, ThemeTrieElementRule(
                            scopeDepth, parentScopes,
                            IF fontStyle = FontStyleNotSet
                                THEN node.mainRule.fontStyle ELSE fontStyle,
                            IF foreground = 0
                                THEN node.mainRule.foreground ELSE foreground,
                            IF background = 0
                                THEN node.mainRule.background ELSE background)) ],
                    logged |-> FALSE ]

\* A faulty variant of newChild: a new child starts empty, not as a copy of its
\* parent.
newChildEmpty(parent) ==
    ThemeTrieElement(ThemeTrieElementRule(0, NullArr, FontStyleNotSet, 0, 0), <<>>)

\* The child created by insert: clones of the parent's rules
newChild(parent) ==
    ThemeTrieElement(cloneRule(parent.mainRule),
                     cloneArr(parent.rulesWithParentScopes))

\* trie with the node at path p set to node
trieWith(trie, p, node) ==
    [q \in DOMAIN trie \cup {p} |-> IF q = p THEN node ELSE trie[q]]

\* ThemeTrieElement.insert on the node at `path`; `style` holds the
\* parentScopes, fontStyle, foreground and background arguments.  The trie
\* afterwards, and whether acceptOverwrite logged.
RECURSIVE trieInsert(_, _, _, _, _)
trieInsert(trie, path, scopeDepth, scope, style) ==
    IF scope = <<>>
    THEN LET r == doInsertHere(trie[path], scopeDepth, style.parentScopes,
                               style.fontStyle, style.foreground,
                               style.background)
         IN  [trie |-> trieWith(trie, path, r.node), logged |-> r.logged]
    ELSE LET childPath == Append(path, scopeHead(scope))
             withChild == IF childPath \in DOMAIN trie THEN trie
                          ELSE trieWith(trie, childPath, newChild(trie[path]))
         IN  trieInsert(withChild, childPath, scopeDepth + 1, scopeTail(scope),
                        style)

(***************************************************************************)
(* ColorMap                                                                *)
(***************************************************************************)
\* An optional string[] argument: absent, or an array.
NoColorMap == [isArray |-> FALSE, arr |-> <<>>]
GivenColorMap(arr) == [isArray |-> TRUE, arr |-> arr]

\* new ColorMap(_colorMap)
NewColorMap(_colorMap) ==
    IF _colorMap.isArray
    THEN LET a == _colorMap.arr
             keys == {toPropertyKey(a[j]) : j \in 1..Len(a)}
         IN  [ isFrozen |-> TRUE,
               lastColorId |-> 0,
               \* the loop writes ascending i, so the last write of a key stays
               color2id |-> [c \in keys |->
                   (CHOOSE j \in 1..Len(a) :
                       /\ toPropertyKey(a[j]) = c
                       /\ \A m \in 1..Len(a) : toPropertyKey(a[m]) = c => m <= j) - 1],
               id2color |-> a ]
    ELSE [ isFrozen |-> FALSE,
           lastColorId |-> 0,
           color2id |-> <<>>,
           id2color |-> <<>> ]

\* A faulty variant of ColorMapGetId: the color is looked up as written, not
\* upper-cased.
ColorMapGetIdNoUpper(cm, color) ==
    IF color = Null
    THEN [ret |-> 0, map |-> cm, threw |-> FALSE]
    ELSE LET found == color \in DOMAIN cm.color2id /\ cm.color2id[color] # 0
         IN  IF found
             THEN [ret |-> cm.color2id[color], map |-> cm, threw |-> FALSE]
             ELSE IF cm.isFrozen
             THEN [ret |-> 0, map |-> cm, threw |-> TRUE]
             ELSE LET value == cm.lastColorId + 1
                  IN  [ ret |-> value,
                        map |-> [ cm EXCEPT
                            !.lastColorId = value,
                            !.color2id = [c \in DOMAIN cm.color2id \cup {color} |->
                                IF c = color THEN value ELSE cm.color2id[c]],
                            !.id2color = arraySet(cm.id2color, value, color) ],
                        threw |-> FALSE ]

\* A faulty variant of ColorMapGetId: a frozen map assigns a new id to a color
\* it does not hold.
ColorMapGetIdIgnoresFrozen(cm, color) ==
    IF color = Null
    THEN [ret |-> 0, map |-> cm, threw |-> FALSE]
    ELSE LET upper == toUpperCase(color)
             found == upper \in DOMAIN cm.color2id /\ cm.color2id[upper] # 0
         IN  IF found
             THEN [ret |-> cm.color2id[upper], map |-> cm, threw |-> FALSE]
             ELSE LET value == cm.lastColorId + 1
                  IN  [ ret |-> value,
                        map |-> [ cm EXCEPT
                            !.lastColorId = value,
                            !.color2id = [c \in DOMAIN cm.color2id \cup {upper} |->
                                IF c = upper THEN value ELSE cm.color2id[c]],
                            !.id2color = arraySet(cm.id2color, value, upper) ],
                        threw |-> FALSE ]

\* ColorMap.getId(color): the id returned, the map afterwards, and whether
\* the call threw 'Missing color in color map'.
ColorMapGetId(cm, color) ==
    IF color = Null
    THEN [ret |-> 0, map |-> cm, threw |-> FALSE]
    ELSE LET upper == toUpperCase(color)
             \* if (value): an id that is undefined or 0 is not taken
             found == upper \in DOMAIN cm.color2id /\ cm.color2id[upper] # 0
         IN  IF found
             THEN [ret |-> cm.color2id[upper], map |-> cm, threw |-> FALSE]
             ELSE IF cm.isFrozen
             THEN [ret |-> 0, map |-> cm, threw |-> TRUE]
             ELSE LET value == cm.lastColorId + 1
                  IN  [ ret |-> value,
                        map |-> [ cm EXCEPT
                            !.lastColorId = value,
                            !.color2id = [c \in DOMAIN cm.color2id \cup {upper} |->
                                IF c = upper THEN value ELSE cm.color2id[c]],
                            !.id2color = arraySet(cm.id2color, value, upper) ],
                        threw |-> FALSE ]

\* ColorMap.getColorMap()
ColorMapGetColorMap(cm) == cm.id2color

(***************************************************************************)
(* resolveParsedThemeRules                                                 *)
(***************************************************************************)
\* The comparator of parsedThemeRules.sort
cmpParsedThemeRules(a, b) ==
    IF strcmp(a.scope, b.scope) # 0 THEN strcmp(a.scope, b.scope)
    ELSE IF strArrCmp(a.parentScopes, b.parentScopes) # 0
    THEN strArrCmp(a.parentScopes, b.parentScopes)
    ELSE a.index - b.index

RECURSIVE insertParsedThemeRule(_, _)
insertParsedThemeRule(sorted, x) ==
    IF sorted = <<>> THEN <<x>>
    ELSE IF cmpParsedThemeRules(sorted[Len(sorted)], x) <= 0 THEN Append(sorted, x)
    ELSE Append(insertParsedThemeRule(SubSeq(sorted, 1, Len(sorted) - 1), x),
                sorted[Len(sorted)])

\* parsedThemeRules.sort(...): a stable sort
RECURSIVE sortParsedThemeRules(_)
sortParsedThemeRules(rules) ==
    IF rules = <<>> THEN <<>>
    ELSE insertParsedThemeRule(
             sortParsedThemeRules(SubSeq(rules, 1, Len(rules) - 1)),
             rules[Len(rules)])

cBlack == <<"#", "0", "0", "0", "0", "0", "0">>
cWhite == <<"#", "f", "f", "f", "f", "f", "f">>

\* The hardcoded defaults
HardcodedDefaults ==
    [fontStyle |-> FontStyleNone, foreground |-> cBlack, background |-> cWhite]

\* A faulty variant of shiftDefaults: a field once set by a ''-scope rule is not
\* overwritten by a later one.
RECURSIVE shiftDefaultsFirstWins(_, _)
shiftDefaultsFirstWins(rules, d) ==
    IF Len(rules) >= 1 /\ rules[1].scope = <<>>
    THEN LET incomingDefaults == rules[1]
         IN  shiftDefaultsFirstWins(Tail(rules),
                 [ fontStyle |->
                       IF incomingDefaults.fontStyle # FontStyleNotSet
                              /\ d.fontStyle = HardcodedDefaults.fontStyle
                       THEN incomingDefaults.fontStyle ELSE d.fontStyle,
                   foreground |->
                       IF incomingDefaults.foreground # Null
                              /\ d.foreground = HardcodedDefaults.foreground
                       THEN incomingDefaults.foreground ELSE d.foreground,
                   background |->
                       IF incomingDefaults.background # Null
                              /\ d.background = HardcodedDefaults.background
                       THEN incomingDefaults.background ELSE d.background ])
    ELSE [rules |-> rules, defaults |-> d]

\* The while loop that shifts the ''-scope rules off the sorted array: the
\* rules left, and the defaults
RECURSIVE shiftDefaults(_, _)
shiftDefaults(rules, d) ==
    IF Len(rules) >= 1 /\ rules[1].scope = <<>>
    THEN LET incomingDefaults == rules[1]
         IN  shiftDefaults(Tail(rules),
                 [ fontStyle |->
                       IF incomingDefaults.fontStyle # FontStyleNotSet
                       THEN incomingDefaults.fontStyle ELSE d.fontStyle,
                   foreground |->
                       IF incomingDefaults.foreground # Null
                       THEN incomingDefaults.foreground ELSE d.foreground,
                   background |->
                       IF incomingDefaults.background # Null
                       THEN incomingDefaults.background ELSE d.background ])
    ELSE [rules |-> rules, defaults |-> d]

StyleInfo(fontStyle, foreground, background) ==
    [ isNull |-> FALSE, fontStyle |-> fontStyle, foreground |-> foreground,
      background |-> background ]

\* The null that Theme.match may return
NullStyleInfo ==
    [isNull |-> TRUE, fontStyle |-> 0, foreground |-> 0, background |-> 0]

\* new ThemeTrieElement(new ThemeTrieElementRule(0, null, NotSet, 0, 0), [])
NewRoot ==
    [p \in {RootPath} |->
        ThemeTrieElement(ThemeTrieElementRule(0, NullArr, FontStyleNotSet, 0, 0),
                         <<>>)]

\* The depth root.insert starts from
RootDepth == 0

(***************************************************************************)
(* Theme.match                                                             *)
(***************************************************************************)
\* cachedValue.find(v => _matches(scopePath.parent, v.parentScopes)): the
\* index of the first such rule, 0 when there is none
findEffectiveRule(cachedValue, scopePath) ==
    IF \E k \in 1..Len(cachedValue) :
           matches(ScopePathParent(scopePath), cachedValue[k].parentScopes)
    THEN CHOOSE k \in 1..Len(cachedValue) :
             /\ matches(ScopePathParent(scopePath), cachedValue[k].parentScopes)
             /\ \A m \in 1..(k - 1) :
                    ~matches(ScopePathParent(scopePath), cachedValue[m].parentScopes)
    ELSE 0

\* A faulty variant of themeMatch: the cache keeps, per scope name, only the
\* rule found for the first path asked.
themeMatchCachesRule(theDefaults, theRoot, theCache, scopePath) ==
    IF scopePath = <<>>
    THEN [result |-> theDefaults, cache |-> theCache]
    ELSE LET scopeName == ScopePathScopeName(scopePath)
             candidates == trieMatch(theRoot, RootPath, scopeName)
             k == findEffectiveRule(candidates, scopePath)
             newCache ==
                 IF scopeName \in DOMAIN theCache THEN theCache
                 ELSE [n \in DOMAIN theCache \cup {scopeName} |->
                          IF n = scopeName
                          THEN (IF k = 0 THEN <<>> ELSE <<candidates[k]>>)
                          ELSE theCache[n]]
             cachedValue == newCache[scopeName]
             j == findEffectiveRule(cachedValue, scopePath)
         IN  [ result |->
                   IF j = 0 THEN NullStyleInfo
                   ELSE StyleInfo(cachedValue[j].fontStyle,
                                  cachedValue[j].foreground,
                                  cachedValue[j].background),
               cache |-> newCache ]

\* Theme.match(scopePath): the value returned, and the cache afterwards
themeMatch(theDefaults, theRoot, theCache, scopePath) ==
    IF scopePath = <<>>
    THEN [result |-> theDefaults, cache |-> theCache]
    ELSE LET scopeName == ScopePathScopeName(scopePath)
             newCache ==
                 IF scopeName \in DOMAIN theCache THEN theCache
                 ELSE [n \in DOMAIN theCache \cup {scopeName} |->
                          IF n = scopeName
                          THEN trieMatch(theRoot, RootPath, scopeName)
                          ELSE theCache[n]]
             cachedValue == newCache[scopeName]
             k == findEffectiveRule(cachedValue, scopePath)
         IN  [ result |->
                   IF k = 0 THEN NullStyleInfo
                   ELSE StyleInfo(cachedValue[k].fontStyle,
                                  cachedValue[k].foreground,
                                  cachedValue[k].background),
               cache |-> newCache ]

(***************************************************************************)
(* SpecColorMap: a growing ColorMap under any sequence of getId calls      *)
(***************************************************************************)
MaxCalls == 4

\* Colors that differ, and colors that differ only in case.
ColorPool ==
    { <<"#", "a", "0", "0">>, <<"#", "A", "0", "0">>, <<"#", "0", "f", "0">>,
      <<"#", "0", "F", "0">>, <<"#", "1", "1", "1">> }

\* The variables of SpecMatches, at rest in the other specifications.
MatchesIdle ==
    /\ mTarget = <<>>
    /\ mParentScopes = NullArr
    /\ mResult = "none"

matchesVars == <<mTarget, mParentScopes, mResult>>
colorMapVars == <<colorMap, calls, palette>>
themeVars == << rawTheme, colorMapArg, pc, parsedThemeRules, idx, defaults, root,
               cache, matched, howDidThisHappen, first >>

NoRawTheme == [isTheme |-> FALSE, settings |-> <<>>]
NoMatch == [called |-> FALSE, scopePath |-> <<>>, result |-> NullStyleInfo]
NoFirst ==
    [ exists |-> FALSE, rawTheme |-> NoRawTheme, palette |-> <<>>,
      defaults |-> NullStyleInfo, root |-> NewRoot ]
EmptyCache == <<>>

\* The state before createFromRawTheme(theme, arg) has done anything
BeforeCreate(theme, arg) ==
    /\ rawTheme = theme
    /\ colorMapArg = arg
    /\ pc = "start"
    /\ parsedThemeRules = <<>>
    /\ idx = 0
    /\ colorMap = NewColorMap(NoColorMap)
    /\ defaults = NullStyleInfo
    /\ root = NewRoot
    /\ cache = EmptyCache
    /\ matched = NoMatch
    /\ howDidThisHappen = FALSE

\* The variables of the theme specifications, at rest in the others.
ThemeIdle ==
    /\ rawTheme = NoRawTheme
    /\ colorMapArg = NoColorMap
    /\ pc = "idle"
    /\ parsedThemeRules = <<>>
    /\ idx = 0
    /\ defaults = NullStyleInfo
    /\ root = NewRoot
    /\ cache = EmptyCache
    /\ matched = NoMatch
    /\ howDidThisHappen = FALSE
    /\ first = NoFirst

InitColorMap ==
    /\ colorMap = NewColorMap(NoColorMap)
    /\ calls = <<>>
    /\ palette = <<>>
    /\ MatchesIdle
    /\ ThemeIdle

GetId(color) ==
    /\ Len(calls) < MaxCalls
    /\ LET r == ColorMapGetId(colorMap, color)
       IN  /\ colorMap' = r.map
           /\ calls' = Append(calls, <<color, r.ret>>)
    /\ UNCHANGED <<palette, matchesVars, themeVars>>

GetColorMap ==
    /\ palette' = ColorMapGetColorMap(colorMap)
    /\ UNCHANGED <<colorMap, calls, matchesVars, themeVars>>

NextColorMap ==
    \/ \E color \in ColorPool \cup {Null} : GetId(color)
    \/ GetColorMap

SpecColorMap == InitColorMap /\ [][NextColorMap]_vars

(***************************************************************************)
(* Theme.createFromRawTheme, step by step, and Theme.match                 *)
(***************************************************************************)
\* parseTheme(source)
ParseTheme ==
    /\ pc = "start"
    /\ parsedThemeRules' = parseTheme(rawTheme)
    /\ pc' = "parsed"
    /\ UNCHANGED << rawTheme, colorMapArg, idx, colorMap, defaults, root, cache,
                    matched, howDidThisHappen, first, calls, palette, matchesVars >>

\* resolveParsedThemeRules up to the insertion loop: the sort, the defaults,
\* the ColorMap, the default StyleInfo and the root
ResolveDefaults ==
    /\ pc = "parsed"
    /\ LET sorted == sortParsedThemeRules(parsedThemeRules)
           shifted == shiftDefaults(sorted, HardcodedDefaults)
           fg == ColorMapGetId(NewColorMap(colorMapArg), shifted.defaults.foreground)
           bg == ColorMapGetId(fg.map, shifted.defaults.background)
       IN  /\ parsedThemeRules' = shifted.rules
           /\ IF fg.threw
              THEN /\ colorMap' = fg.map
                   /\ pc' = "threw"
                   /\ UNCHANGED defaults
              ELSE IF bg.threw
              THEN /\ colorMap' = bg.map
                   /\ pc' = "threw"
                   /\ UNCHANGED defaults
              ELSE /\ colorMap' = bg.map
                   /\ pc' = "insert"
                   /\ defaults' =
                          StyleInfo(shifted.defaults.fontStyle, fg.ret, bg.ret)
    /\ root' = NewRoot
    /\ idx' = 0
    /\ UNCHANGED << rawTheme, colorMapArg, cache, matched, howDidThisHappen,
                    first, calls, palette, matchesVars >>

\* One round of the insertion loop: root.insert of parsedThemeRules[i]
InsertRule ==
    /\ pc = "insert"
    /\ idx < Len(parsedThemeRules)
    /\ LET rule == parsedThemeRules[idx + 1]
           fg == ColorMapGetId(colorMap, rule.foreground)
           bg == ColorMapGetId(fg.map, rule.background)
           ins == trieInsert(root, RootPath, RootDepth, rule.scope,
                      [ parentScopes |-> rule.parentScopes,
                        fontStyle |-> rule.fontStyle,
                        foreground |-> fg.ret, background |-> bg.ret ])
       IN  IF fg.threw \/ bg.threw
           THEN /\ colorMap' = IF fg.threw THEN fg.map ELSE bg.map
                /\ pc' = "threw"
                /\ UNCHANGED <<root, idx, howDidThisHappen>>
           ELSE /\ colorMap' = bg.map
                /\ root' = ins.trie
                /\ howDidThisHappen' = (howDidThisHappen \/ ins.logged)
                /\ idx' = idx + 1
                /\ UNCHANGED pc
    /\ UNCHANGED << rawTheme, colorMapArg, parsedThemeRules, defaults, cache,
                    matched, first, calls, palette, matchesVars >>

\* new Theme(colorMap, defaults, root): the cache is empty
NewTheme ==
    /\ pc = "insert"
    /\ idx = Len(parsedThemeRules)
    /\ pc' = "ready"
    /\ cache' = EmptyCache
    /\ UNCHANGED << rawTheme, colorMapArg, parsedThemeRules, idx, colorMap,
                    defaults, root, matched, howDidThisHappen, first, calls,
                    palette, matchesVars >>

\* theme.match(scopePath)
Match(scopePath) ==
    /\ pc = "ready"
    /\ LET r == themeMatch(defaults, root, cache, scopePath)
       IN  /\ cache' = r.cache
           /\ matched' =
                  [called |-> TRUE, scopePath |-> scopePath, result |-> r.result]
    /\ UNCHANGED << rawTheme, colorMapArg, pc, parsedThemeRules, idx, colorMap,
                    defaults, root, howDidThisHappen, first, calls, palette,
                    matchesVars >>

Create == ParseTheme \/ ResolveDefaults \/ InsertRule \/ NewTheme

(***************************************************************************)
(* The raw themes of the theme specifications                              *)
(***************************************************************************)
MaxRules == 3

Digits == <<"0", "1", "2", "3", "4", "5", "6", "7", "8", "9">>

\* The settings of the entry at index i differ from those of every other
\* entry, so that a style shows which entry it came from.
fontStyleOf(i) ==
    IF i = 0 THEN <<>>
    ELSE IF i = 1 THEN wItalic
    ELSE IF i = 2 THEN wBold
    ELSE IF i = 3 THEN wItalic \o <<" ">> \o wBold
    ELSE wUnderline
foregroundOf(i) == <<"#", Digits[i + 2], Digits[i + 2], Digits[i + 2]>>
backgroundOf(i) == <<"#", "a", Digits[i + 2], "a">>

\* A shape is a scope pattern and the settings an entry gives.
RawEntry(shape, i) ==
    [ hasSettings |-> TRUE,
      scope |-> shape.scope,
      fontStyle |-> IF "fontStyle" \in shape.sets THEN fontStyleOf(i) ELSE Undefined,
      foreground |-> IF "foreground" \in shape.sets THEN foregroundOf(i) ELSE Undefined,
      background |-> IF "background" \in shape.sets THEN backgroundOf(i) ELSE Undefined ]

RawThemes(shapes, n) ==
    { [ isTheme |-> TRUE,
        settings |-> [k \in 1..Len(sh) |-> RawEntry(sh[k], k - 1)] ] :
      sh \in SeqUpTo(shapes, n) }

pA == sA
pAB == sAdotB
pPA == <<"p", " ", "a">>
pPAB == <<"p", " ", "a", ".", "b">>

\* Spec: rules for a and a.b, with and without the parent scope p, each
\* setting its font style or one of its colors.
ShapePool ==
    { [scope |-> pA, sets |-> {"fontStyle"}],
      [scope |-> pA, sets |-> {"foreground"}],
      [scope |-> pAB, sets |-> {"fontStyle"}],
      [scope |-> pAB, sets |-> {"foreground"}],
      [scope |-> pAB, sets |-> {"background"}],
      [scope |-> pPA, sets |-> {"foreground"}],
      [scope |-> pPAB, sets |-> {"fontStyle"}],
      [scope |-> pPAB, sets |-> {"foreground"}],
      [scope |-> pPAB, sets |-> {"background"}] }

\* The null path, a leaf with a rule, the same leaf under the ancestor p, a
\* leaf below it, and a leaf that no rule names.
PathPool == { <<>>, <<sAdotB>>, <<sP, sAdotB>>, <<sABC>>, <<sX>> }

Init ==
    /\ \E theme \in RawThemes(ShapePool, MaxRules) : BeforeCreate(theme, NoColorMap)
    /\ first = NoFirst
    /\ calls = <<>>
    /\ palette = <<>>
    /\ MatchesIdle

Next ==
    \/ Create
    \/ \E scopePath \in PathPool : Match(scopePath)

Spec == Init /\ [][Next]_vars

(***************************************************************************)
(* SpecInherit: themes without parent scopes, and their default rules      *)
(***************************************************************************)
sString == <<"s", "t", "r", "i", "n", "g">>
sStringQuoted == sString \o <<".", "q", "u", "o", "t", "e", "d">>
sStringOther == sString \o <<".", "o", "t", "h", "e", "r">>

c111111 == <<"#", "1", "1", "1", "1", "1", "1">>
cAA0000 == <<"#", "a", "a", "0", "0", "0", "0">>
c00FF00 == <<"#", "0", "0", "f", "f", "0", "0">>

\* The raw settings [{scope '', foreground #111111}, {scope 'string.quoted',
\* foreground #aa0000}, {scope 'string', fontStyle italic, foreground #00ff00}]
ScenarioSettings ==
    << [ hasSettings |-> TRUE, scope |-> <<>>, fontStyle |-> Undefined,
         foreground |-> c111111, background |-> Undefined ],
       [ hasSettings |-> TRUE, scope |-> sStringQuoted, fontStyle |-> Undefined,
         foreground |-> cAA0000, background |-> Undefined ],
       [ hasSettings |-> TRUE, scope |-> sString, fontStyle |-> wItalic,
         foreground |-> c00FF00, background |-> Undefined ] >>

\* The scenario's entries in every order
ScenarioThemes ==
    { [ isTheme |-> TRUE,
        settings |-> [k \in 1..Len(ScenarioSettings) |-> ScenarioSettings[perm[k]]] ] :
      perm \in { f \in [1..Len(ScenarioSettings) -> 1..Len(ScenarioSettings)] :
                     \A j, k \in 1..Len(ScenarioSettings) : f[j] = f[k] => j = k } }

\* Entries without a scope (the defaults), for string and for string.quoted,
\* each setting one field.
InheritShapePool ==
    { [scope |-> sc, sets |-> {f}] :
          sc \in {Undefined, sString, sStringQuoted},
          f \in {"fontStyle", "foreground", "background"} }

InheritPathPool == { <<>>, <<sString>>, <<sStringQuoted>>, <<sStringOther>> }

InitInherit ==
    /\ \E theme \in RawThemes(InheritShapePool, MaxRules)
                       \cup ScenarioThemes \cup {NoRawTheme} :
           BeforeCreate(theme, NoColorMap)
    /\ first = NoFirst
    /\ calls = <<>>
    /\ palette = <<>>
    /\ MatchesIdle

NextInherit ==
    \/ Create
    \/ \E scopePath \in InheritPathPool : Match(scopePath)

SpecInherit == InitInherit /\ [][NextInherit]_vars

(***************************************************************************)
(* SpecRoundTrip: a theme compiled against the palette of another          *)
(***************************************************************************)
\* A default foreground, and colors of the scopes a and a.b.
RoundTripShapePool ==
    { [scope |-> Undefined, sets |-> {"foreground"}],
      [scope |-> pA, sets |-> {"foreground"}],
      [scope |-> pAB, sets |-> {"background"}] }

InitRoundTrip ==
    /\ \E theme \in RawThemes(RoundTripShapePool, MaxRules) :
           BeforeCreate(theme, NoColorMap)
    /\ first = NoFirst
    /\ calls = <<>>
    /\ palette = <<>>
    /\ MatchesIdle

\* Theme.createFromRawTheme(theme, first.getColorMap()), once the first
\* theme exists
CreateWithPalette(theme) ==
    /\ pc = "ready"
    /\ ~first.exists
    /\ first' = [ exists |-> TRUE, rawTheme |-> rawTheme,
                  palette |-> ColorMapGetColorMap(colorMap),
                  defaults |-> defaults, root |-> root ]
    /\ rawTheme' = theme
    /\ colorMapArg' = GivenColorMap(ColorMapGetColorMap(colorMap))
    /\ pc' = "start"
    /\ parsedThemeRules' = <<>>
    /\ idx' = 0
    /\ colorMap' = NewColorMap(NoColorMap)
    /\ defaults' = NullStyleInfo
    /\ root' = NewRoot
    /\ cache' = EmptyCache
    /\ matched' = NoMatch
    /\ howDidThisHappen' = FALSE
    /\ UNCHANGED <<calls, palette, matchesVars>>

NextRoundTrip ==
    \/ Create
    \/ \E theme \in RawThemes(RoundTripShapePool, MaxRules) : CreateWithPalette(theme)

SpecRoundTrip == InitRoundTrip /\ [][NextRoundTrip]_vars

(***************************************************************************)
(* What the claims about a compiled theme read                             *)
(***************************************************************************)
Fields == {"fontStyle", "foreground", "background"}

\* A scope satisfies a selector if it equals it or starts with it followed
\* by '.'.
Satisfies(ancestor, segment) ==
    \/ ancestor = segment
    \/ /\ Len(ancestor) > Len(segment)
       /\ \A k \in 1..Len(segment) : ancestor[k] = segment[k]
       /\ ancestor[Len(segment) + 1] = "."

\* The rules of the raw theme, in declaration order
DeclaredRules == parseTheme(rawTheme)

DeclaredSet == {DeclaredRules[k] : k \in 1..Len(DeclaredRules)}

\* The rule gives the field a value
SetsField(r, f) ==
    IF f = "fontStyle" THEN r.fontStyle # FontStyleNotSet ELSE r[f] # Null

\* The id the Theme's color map holds for a color, -1 when it holds none
ColorId(color) ==
    IF toUpperCase(color) \in DOMAIN colorMap.color2id
    THEN colorMap.color2id[toUpperCase(color)]
    ELSE -1

\* The value of the field in a compiled rule: the font style, or the id of
\* the color
CompiledValue(r, f) == IF f = "fontStyle" THEN r.fontStyle ELSE ColorId(r[f])

\* The rules with this own scope and parent-scope chain that set the field
Setters(scope, parentScopes, f) ==
    { r \in DeclaredSet :
          r.scope = scope /\ r.parentScopes = parentScopes /\ SetsField(r, f) }

\* The one declared last
LastDeclared(S) == CHOOSE r \in S : \A q \in S : q.index <= r.index

\* The trie node of a scope: one level per dot segment
NodePath(scope) == split(scope, ".")

\* The compiled rules of a key: the main rule of the scope's node, or its
\* rules with that parent-scope chain
CompiledRules(scope, parentScopes) ==
    LET node == root[NodePath(scope)]
    IN  IF parentScopes = NullArr THEN {node.mainRule}
        ELSE { node.rulesWithParentScopes[k] :
                   k \in { j \in 1..Len(node.rulesWithParentScopes) :
                               node.rulesWithParentScopes[j].parentScopes
                                   = parentScopes } }

\* The result of theme.match(scopePath) on a Theme whose cache is empty
FreshMatch(scopePath) == themeMatch(defaults, root, EmptyCache, scopePath).result

(***************************************************************************)
(* C2: the deepest rule along the leaf's segments wins                     *)
(***************************************************************************)
NoParentScopesDeclared == \A r \in DeclaredSet : r.parentScopes = NullArr

\* C2: in a theme compiled from rules without parent scopes for a and a.b,
\* match on a leaf a.b returns, for every field an a.b rule sets, the a.b
\* rule's value; and match on a leaf a.b.c, which has no rule of its own,
\* returns the style of the leaf a.b under the same ancestors.
C2_DeepestRuleWins ==
    (pc = "ready" /\ matched.called /\ matched.scopePath # <<>>) =>
        LET leaf == ScopePathScopeName(matched.scopePath)
            ancestors == ScopePathParent(matched.scopePath)
        IN  /\ ( /\ leaf = sAdotB
                 /\ NoParentScopesDeclared
                 /\ \E r \in DeclaredSet : r.scope = sA
                 /\ \E r \in DeclaredSet : r.scope = sAdotB ) =>
                   \A f \in Fields :
                       Setters(sAdotB, NullArr, f) # {} =>
                           matched.result[f] = CompiledValue(
                               LastDeclared(Setters(sAdotB, NullArr, f)), f)
            /\ ( /\ leaf = sABC
                 /\ \A r \in DeclaredSet : r.scope # sABC ) =>
                   matched.result = FreshMatch(ancestors \o <<sAdotB>>)

\* Rules for a and a.b that both set the foreground, no parent scopes; match
\* on the leaf a.b.c has returned the a.b rule's foreground, not the a rule's.
C2_Witness ==
    /\ pc = "ready"
    /\ NoParentScopesDeclared
    /\ Setters(sA, NullArr, "foreground") # {}
    /\ Setters(sAdotB, NullArr, "foreground") # {}
    /\ matched.called
    /\ matched.scopePath = <<sABC>>
    /\ matched.result.foreground =
           ColorId(LastDeclared(Setters(sAdotB, NullArr, "foreground")).foreground)
    /\ matched.result.foreground # root[<<sA>>].mainRule.foreground

(***************************************************************************)
(* C3: rules of one key merge field by field                               *)
(***************************************************************************)
\* C3: for rules with the same own scope and parent-scope chain, wherever
\* they stand among other rules, each of fontStyle, foreground and
\* background of the compiled rule is the value given by the rule declared
\* last among those that set the field; match on a leaf without ancestors
\* returns those values of the leaf's rules without parent scopes.
C3_FieldWiseMerge ==
    pc = "ready" =>
        /\ \A r \in DeclaredSet : \A f \in Fields :
               (r.scope # <<>> /\ SetsField(r, f)) =>
                   /\ CompiledRules(r.scope, r.parentScopes) # {}
                   /\ \A c \in CompiledRules(r.scope, r.parentScopes) :
                          c[f] = CompiledValue(
                              LastDeclared(Setters(r.scope, r.parentScopes, f)), f)
        /\ (matched.called /\ Len(matched.scopePath) = 1) =>
               \A f \in Fields :
                   Setters(matched.scopePath[1], NullArr, f) # {} =>
                       matched.result[f] = CompiledValue(
                           LastDeclared(Setters(matched.scopePath[1], NullArr, f)), f)

\* Three rules: a.b sets only its foreground, a rule of another key comes
\* between, then a.b sets only its font style; match on the leaf a.b has
\* returned the later rule's font style with the earlier rule's foreground.
C3_Witness ==
    /\ pc = "ready"
    /\ Len(DeclaredRules) = 3
    /\ DeclaredRules[1].scope = sAdotB /\ DeclaredRules[1].parentScopes = NullArr
    /\ DeclaredRules[1].foreground # Null
    /\ DeclaredRules[1].fontStyle = FontStyleNotSet
    /\ DeclaredRules[2].scope = sA
    /\ DeclaredRules[3].scope = sAdotB /\ DeclaredRules[3].parentScopes = NullArr
    /\ DeclaredRules[3].foreground = Null
    /\ DeclaredRules[3].fontStyle = FontStyleBold
    /\ matched.called
    /\ matched.scopePath = <<sAdotB>>
    /\ matched.result.fontStyle = FontStyleBold
    /\ matched.result.foreground = ColorId(DeclaredRules[1].foreground)

(***************************************************************************)
(* C8: a rule's scopeDepth never decreases                                 *)
(***************************************************************************)
NodeRules(node) == <<node.mainRule>> \o node.rulesWithParentScopes

C8_State ==
    /\ ~howDidThisHappen
    /\ \A path \in DOMAIN root :
           \A k \in 1..Len(NodeRules(root[path])) :
               NodeRules(root[path])[k].scopeDepth <= Len(path)

C8_Step ==
    pc = "insert" =>
        \A path \in DOMAIN root :
            /\ path \in DOMAIN root'
            /\ Len(NodeRules(root'[path])) >= Len(NodeRules(root[path]))
            /\ \A k \in 1..Len(NodeRules(root[path])) :
                   /\ NodeRules(root'[path])[k].parentScopes
                          = NodeRules(root[path])[k].parentScopes
                   /\ NodeRules(root'[path])[k].scopeDepth
                          >= NodeRules(root[path])[k].scopeDepth

\* C8: while a theme is compiled, acceptOverwrite is never called with a
\* scopeDepth below the rule's own ('how did this happen?' is never logged),
\* no rule's scopeDepth decreases, and every rule of a node at depth d has a
\* scopeDepth of at most d.
C8_DepthNeverDecreases == []C8_State /\ [][C8_Step]_vars

\* The rule of a under p was cloned into the node a.b with depth 1 and
\* then overwritten there by a rule of a.b under p: its depth is now 2.
C8_Witness ==
    /\ pc = "ready"
    /\ \E r \in DeclaredSet : r.scope = sA /\ r.parentScopes = <<sP>>
    /\ \E r \in DeclaredSet : r.scope = sAdotB /\ r.parentScopes = <<sP>>
    /\ \E c \in CompiledRules(sA, <<sP>>) : c.scopeDepth = 1
    /\ \E c \in CompiledRules(sAdotB, <<sP>>) : c.scopeDepth = 2

(***************************************************************************)
(* C9: the cache of Theme.match is a transparent memoization               *)
(***************************************************************************)
C9_State ==
    pc = "ready" =>
        /\ \A name \in DOMAIN cache : cache[name] = trieMatch(root, RootPath, name)
        /\ matched.called => matched.result = FreshMatch(matched.scopePath)

C9_Step ==
    pc = "ready" =>
        /\ root' = root
        /\ defaults' = defaults
        /\ colorMap' = colorMap
        /\ \A name \in DOMAIN cache :
               name \in DOMAIN cache' /\ cache'[name] = cache[name]

\* C9: every match call returns what the same call returns on a Theme with
\* an empty cache; a cached candidate list is never changed by later calls;
\* match changes neither the trie nor the defaults; the cache entry of a
\* scope name is the sorted candidate list the trie lookup gives for it.
C9_CacheIsTransparent == []C9_State /\ [][C9_Step]_vars

\* All three leaves are cached, and the last call, on the leaf a.b under the
\* ancestor p, was answered from the cache with a style other than that of
\* the leaf a.b without ancestors.
C9_Witness ==
    /\ pc = "ready"
    /\ DOMAIN cache = {sAdotB, sABC, sX}
    /\ matched.called
    /\ matched.scopePath = <<sP, sAdotB>>
    /\ matched.result # FreshMatch(<<sAdotB>>)
    /\ Len(cache[sAdotB]) >= 2

(***************************************************************************)
(* C10: Theme.match never returns null                                     *)
(***************************************************************************)
\* C10: every node's main rule has no parent constraint and is in the
\* node's candidate list, so match always selects a candidate and never
\* returns null; the root's main rule is never touched, and a leaf whose
\* first segment has no trie node gets font style NotSet with foreground 0
\* and background 0.
C10_MatchNeverNull ==
    /\ \A path \in DOMAIN root : root[path].mainRule.parentScopes = NullArr
    /\ root[RootPath] = NewRoot[RootPath]
    /\ \A name \in DOMAIN cache :
           \E k \in 1..Len(cache[name]) : cache[name][k].parentScopes = NullArr
    /\ matched.called =>
           /\ ~matched.result.isNull
           /\ ( /\ matched.scopePath # <<>>
                /\ <<scopeHead(ScopePathScopeName(matched.scopePath))>>
                       \notin DOMAIN root ) =>
                  matched.result = StyleInfo(FontStyleNotSet, 0, 0)

\* The node a.b holds a rule under p besides its main rule; match on the
\* leaf a.b without ancestors has passed over it and returned the main rule.
C10_Witness ==
    /\ pc = "ready"
    /\ <<sA, sB>> \in DOMAIN root
    /\ Len(root[<<sA, sB>>].rulesWithParentScopes) >= 1
    /\ matched.called
    /\ matched.scopePath = <<sAdotB>>
    /\ ~matched.result.isNull
    /\ matched.result.fontStyle = root[<<sA, sB>>].mainRule.fontStyle

(***************************************************************************)
(* C4: a deeper scope inherits from the nearest shorter prefix             *)
(***************************************************************************)
\* The rules without parent scopes whose scope is the leaf or a prefix of
\* it at a dot, and that set the field
InheritedSetters(leaf, f) ==
    { r \in DeclaredSet :
          /\ r.scope # <<>>
          /\ r.parentScopes = NullArr
          /\ Satisfies(leaf, r.scope)
          /\ SetsField(r, f) }

\* Among them, the one with the longest scope, declared last
Nearest(S) ==
    CHOOSE r \in S :
        \A q \in S :
            \/ Len(q.scope) < Len(r.scope)
            \/ (Len(q.scope) = Len(r.scope) /\ q.index <= r.index)

Unset(f) == IF f = "fontStyle" THEN FontStyleNotSet ELSE 0

\* The color of an id in the Theme's color map
ColorOfId(id) == ColorMapGetColorMap(colorMap)[id + 1]

IsScenario == rawTheme \in ScenarioThemes

C4_State ==
    (pc = "ready" /\ matched.called /\ Len(matched.scopePath) = 1) =>
        LET leaf == matched.scopePath[1]
        IN  /\ \A f \in Fields :
                   matched.result[f] =
                       IF InheritedSetters(leaf, f) = {} THEN Unset(f)
                       ELSE CompiledValue(Nearest(InheritedSetters(leaf, f)), f)
            /\ (IsScenario /\ leaf = sStringQuoted) =>
                   /\ ColorOfId(matched.result.foreground) = toUpperCase(cAA0000)
                   /\ matched.result.fontStyle = FontStyleItalic
            /\ (IsScenario /\ leaf = sStringOther) =>
                   /\ ColorOfId(matched.result.foreground) = toUpperCase(c00FF00)
                   /\ matched.result.fontStyle = FontStyleItalic
            /\ IsScenario => ColorOfId(defaults.foreground) = c111111

\* A node created by an insertion is a copy of its parent, and the node the
\* rule is inserted at differs from the copy only where the rule writes.
C4_Step ==
    (pc = "insert" /\ pc' = "insert" /\ idx' = idx + 1) =>
        LET rule == parsedThemeRules[idx + 1]
        IN  \A path \in DOMAIN root' \ DOMAIN root :
                LET parent == root'[SubSeq(path, 1, Len(path) - 1)]
                    node == root'[path]
                IN  IF path # NodePath(rule.scope)
                    THEN node = parent
                    ELSE /\ \A f \in Fields :
                                (rule.parentScopes # NullArr \/ ~SetsField(rule, f))
                                    => node.mainRule[f] = parent.mainRule[f]
                         /\ Len(node.rulesWithParentScopes)
                                >= Len(parent.rulesWithParentScopes)
                         /\ \A k \in 1..Len(parent.rulesWithParentScopes) :
                                node.rulesWithParentScopes[k].parentScopes
                                    = parent.rulesWithParentScopes[k].parentScopes

DefaultSetters(f) == {r \in DeclaredSet : r.scope = <<>> /\ SetsField(r, f)}

\* C5: each of fontStyle, foreground and background of the defaults is the
\* value of the last declared ''-scope rule that sets it, or the hardcoded
\* fallback (None, #000000, #ffffff) when none does; match(null) returns
\* the defaults; no ''-scope rule is inserted into the trie.
C5_DefaultsLastDeclaredWins ==
    pc \in {"insert", "ready"} =>
        /\ \A f \in Fields :
               defaults[f] =
                   IF DefaultSetters(f) # {}
                   THEN CompiledValue(LastDeclared(DefaultSetters(f)), f)
                   ELSE IF f = "fontStyle" THEN FontStyleNone
                   ELSE IF f = "foreground" THEN ColorId(cBlack)
                   ELSE ColorId(cWhite)
        /\ ~defaults.isNull
        /\ (matched.called /\ matched.scopePath = <<>>) => matched.result = defaults
        /\ \A k \in 1..Len(parsedThemeRules) : parsedThemeRules[k].scope # <<>>
        /\ root[RootPath] = NewRoot[RootPath]
        /\ Len(parsedThemeRules) = Cardinality({r \in DeclaredSet : r.scope # <<>>})

\* Three ''-scope rules: the first and the last set the foreground, the
\* second the font style; match(null) has returned the last one's foreground,
\* the second one's font style and the hardcoded background.
C5_Witness ==
    /\ pc = "ready"
    /\ Len(DeclaredRules) = 3
    /\ \A k \in 1..3 : DeclaredRules[k].scope = <<>>
    /\ DeclaredRules[1].foreground # Null
    /\ DeclaredRules[2].fontStyle = FontStyleItalic
    /\ DeclaredRules[3].foreground # Null
    /\ matched.called
    /\ matched.scopePath = <<>>
    /\ matched.result.foreground = ColorId(DeclaredRules[3].foreground)
    /\ matched.result.fontStyle = FontStyleItalic
    /\ matched.result.background = ColorId(cWhite)

(***************************************************************************)
(* C6: the round trip of the color palette                                 *)
(***************************************************************************)
\* The colors of the first theme's palette, upper-cased as they are
PaletteColors == {first.palette[k] : k \in 2..Len(first.palette)}

\* Every color the raw theme names, and the hardcoded default of a field
\* that no ''-scope rule sets
ColorsUsed ==
    ({r.foreground : r \in DeclaredSet} \cup {r.background : r \in DeclaredSet}
        \cup (IF DefaultSetters("foreground") = {} THEN {cBlack} ELSE {})
        \cup (IF DefaultSetters("background") = {} THEN {cWhite} ELSE {}))
    \ {Null}

\* The colors resolveParsedThemeRules passes to getId: those of the rules
\* inserted into the trie, and the resolved default foreground and
\* background
ColorsLookedUp ==
    ({r.foreground : r \in {q \in DeclaredSet : q.scope # <<>>}}
        \cup {r.background : r \in {q \in DeclaredSet : q.scope # <<>>}}
        \cup { IF DefaultSetters("foreground") = {} THEN cBlack
               ELSE LastDeclared(DefaultSetters("foreground")).foreground,
               IF DefaultSetters("background") = {} THEN cWhite
               ELSE LastDeclared(DefaultSetters("background")).background })
    \ {Null}

InPalette(colors) == \A c \in colors : toUpperCase(c) \in PaletteColors

\* What holds of the second compilation whatever "uses" means
C6_Common ==
    /\ colorMapArg = GivenColorMap(first.palette)
    \* the frozen map never assigns an id
    /\ pc \in {"insert", "ready", "threw"} =>
           colorMap = NewColorMap(GivenColorMap(first.palette))
    \* every color of the palette has in T2 the id it has in T1
    /\ \A k \in 2..Len(first.palette) :
           ColorMapGetId(NewColorMap(colorMapArg), first.palette[k])
               = [ ret |-> k - 1, map |-> NewColorMap(colorMapArg),
                   threw |-> FALSE ]
    \* the same raw theme compiles to the same theme
    /\ rawTheme = first.rawTheme =>
           /\ pc # "threw"
           /\ pc = "ready" =>
                  /\ defaults = first.defaults
                  /\ root = first.root
                  /\ ColorMapGetColorMap(colorMap) = first.palette
                  /\ \A scopePath \in PathPool :
                         FreshMatch(scopePath)
                             = themeMatch(first.defaults, first.root, EmptyCache,
                                          scopePath).result

\* C6 as claimed: compiling against the palette of T1 gives every palette
\* color its id of T1 (the same raw theme compiles to the same defaults and
\* match results), and the compilation of a raw theme that uses a color not
\* in the palette, the hardcoded defaults included, throws.
C6_Original ==
    first.exists =>
        /\ C6_Common
        /\ pc = "ready" => InPalette(ColorsUsed)

\* C6 as amended: the compilation throws exactly when a color it looks up
\* (a color of a rule with a non-empty scope, or the resolved default
\* foreground or background) is not in the palette.
C6_RoundTrip ==
    first.exists =>
        /\ C6_Common
        /\ pc = "ready" => InPalette(ColorsLookedUp)
        /\ pc = "threw" => ~InPalette(ColorsLookedUp)

\* The first theme, whose palette holds three colors and none for the
\* foreground of its overridden ''-scope rule, was compiled again against
\* its own palette and is ready.
C6_Witness ==
    /\ first.exists
    /\ pc = "ready"
    /\ rawTheme = first.rawTheme
    /\ Len(first.palette) = 4
    /\ defaults = first.defaults
    /\ defaults.foreground = 1
    /\ ~InPalette(ColorsUsed)

\* A theme whose resolved default foreground is not in the palette of the
\* first theme was compiled against it, and the compilation threw.
C6_WitnessThrew ==
    /\ first.exists
    /\ pc = "threw"
    /\ InPalette(ColorsLookedUp \ {cBlack})

(***************************************************************************)
(* C7: the growing ColorMap                                                *)
(***************************************************************************)
\* The distinct upper-cased colors among the first k calls, in the order
\* of their first appearance.
RECURSIVE FirstSeen(_)
FirstSeen(k) ==
    IF k = 0 THEN <<>>
    ELSE LET before == FirstSeen(k - 1)
             c == calls[k][1]
         IN  IF c = Null \/ \E j \in 1..Len(before) : before[j] = toUpperCase(c)
             THEN before
             ELSE Append(before, toUpperCase(c))

C7_State ==
    LET seen == FirstSeen(Len(calls))
        got == ColorMapGetColorMap(colorMap)
    IN  /\ ~colorMap.isFrozen
        \* the ids handed out are exactly 1..lastColorId
        /\ colorMap.lastColorId = Len(seen)
        /\ {calls[k][2] : k \in {j \in 1..Len(calls) : calls[j][1] # Null}}
               = 1..colorMap.lastColorId
        /\ \A k \in 1..Len(calls) :
               IF calls[k][1] = Null
               THEN calls[k][2] = 0
               \* the id is the color's place in the order of first appearance
               ELSE /\ calls[k][2] \in 1..Len(seen)
                    /\ seen[calls[k][2]] = toUpperCase(calls[k][1])
        \* the same id exactly for colors equal after upper-casing
        /\ \A k, m \in 1..Len(calls) :
               (calls[k][1] # Null /\ calls[m][1] # Null) =>
                   ((calls[k][2] = calls[m][2])
                       <=> (toUpperCase(calls[k][1]) = toUpperCase(calls[m][1])))
        \* the two tables are inverse of each other
        /\ DOMAIN colorMap.color2id = {seen[j] : j \in 1..Len(seen)}
        /\ \A c \in DOMAIN colorMap.color2id :
               /\ colorMap.color2id[c] \in 1..colorMap.lastColorId
               /\ colorMap.id2color[colorMap.color2id[c] + 1] = c
        /\ \A id \in 1..colorMap.lastColorId :
               colorMap.color2id[colorMap.id2color[id + 1]] = id
        \* getColorMap(): the color with id k at index k, index 0 a hole
        /\ Len(got) = (IF Len(seen) = 0 THEN 0 ELSE Len(seen) + 1)
        /\ Len(got) > 0 => got[1] = Undefined
        /\ \A id \in 1..Len(seen) : got[id + 1] = seen[id]

C7_Step ==
    /\ Len(calls') > Len(calls) =>
           LET c == calls'[Len(calls')][1]
               id == calls'[Len(calls')][2]
               seen == FirstSeen(Len(calls))
           IN  /\ c = Null => (id = 0 /\ colorMap' = colorMap)
               /\ (c # Null /\ \E j \in 1..Len(seen) : seen[j] = toUpperCase(c)) =>
                      /\ colorMap' = colorMap
                      /\ \E k \in 1..Len(calls) :
                             /\ calls[k][1] # Null
                             /\ toUpperCase(calls[k][1]) = toUpperCase(c)
                             /\ calls[k][2] = id
    /\ palette' # palette =>
           (colorMap' = colorMap /\ palette' = ColorMapGetColorMap(colorMap))

\* C7: in growing mode, after any sequence of getId calls, getId(null) is 0
\* and changes nothing; the ids are exactly 1..lastColorId in the order of
\* first appearance; two colors share an id exactly when they are equal
\* after upper-casing; color2id and id2color are inverse; a call for a seen
\* color returns its id and changes nothing; getColorMap() has the color
\* with id k at index k and a hole at index 0.
C7_GrowingColorMap == []C7_State /\ [][C7_Step]_vars

\* Two colors that differ only in case were asked for and share id 1, a
\* third color has id 2, null was asked for, and getColorMap() was read.
C7_Witness ==
    /\ Len(calls) = MaxCalls
    /\ \E k, m, n, z \in 1..Len(calls) :
           /\ calls[k][1] # calls[m][1]
           /\ calls[k][2] = 1 /\ calls[m][2] = 1
           /\ calls[n][2] = 2
           /\ calls[z][1] = Null
    /\ Len(palette) = 3

(***************************************************************************)
(* SpecMatches: _matches on every scope path and constraint list           *)
(***************************************************************************)
MaxAncestors == 3
MaxParentScopes == 2

\* Ancestors that equal a selector, extend one by a dot segment, extend one
\* without a dot, or match none.
AncestorPool == {sA, sB, sX, sAB, sAdotB, sBdotX}
SelectorPool == {sA, sB, sAdotB}

InitMatches ==
    /\ \E ancestors \in SeqUpTo(AncestorPool, MaxAncestors) :
           mTarget = ScopePathFrom(ancestors \o <<sC>>)
    /\ mParentScopes \in
           {NullArr} \cup (SeqUpTo(SelectorPool, MaxParentScopes) \ {<<>>})
    /\ mResult = "none"
    /\ colorMap = NewColorMap(NoColorMap)
    /\ calls = <<>>
    /\ palette = <<>>
    /\ ThemeIdle

CallMatches ==
    /\ mResult = "none"
    /\ mResult' = IF matches(ScopePathParent(mTarget), mParentScopes)
                  THEN "true" ELSE "false"
    /\ UNCHANGED <<mTarget, mParentScopes, colorMapVars, themeVars>>

NextMatches == CallMatches

SpecMatches == InitMatches /\ [][NextMatches]_vars

(***************************************************************************)
(* C1: ancestor constraints are matched as a subsequence                   *)
(***************************************************************************)
\* The ancestors of a path, nearest first.
AncestorsOutward(p) == [k \in 1..(Len(p) - 1) |-> p[Len(p) - k]]

\* The segments can be matched in order against a subsequence of the
\* ancestors walked outward.
IsSubsequenceMatch(p, segments) ==
    LET anc == AncestorsOutward(p)
    IN  \E f \in [1..Len(segments) -> 1..Len(anc)] :
            /\ \A k \in 1..Len(segments) : Satisfies(anc[f[k]], segments[k])
            /\ \A k \in 1..(Len(segments) - 1) : f[k] < f[k + 1]

\* C1: _matches(scopePath.parent, parentScopes) is true exactly when the
\* constraint segments match, in order, a subsequence of the ancestors walked
\* outward from the nearest one (an ancestor satisfies a segment if it equals
\* it or starts with it followed by '.'); a null constraint is always
\* satisfied; ['b','a'] matches the path a, x, b, c and not the path a, c.
C1_MatchesIsSubsequence ==
    mResult # "none" =>
        /\ mParentScopes = NullArr => mResult = "true"
        /\ mParentScopes # NullArr =>
               ((mResult = "true") <=> IsSubsequenceMatch(mTarget, mParentScopes))
        /\ (mTarget = <<sA, sX, sB, sC>> /\ mParentScopes = <<sB, sA>>)
               => mResult = "true"
        /\ (mTarget = <<sA, sC>> /\ mParentScopes = <<sB, sA>>)
               => mResult = "false"

\* _matches has returned true for ['b','a'] on the path a, x, b, c.
C1_Witness ==
    /\ mTarget = <<sA, sX, sB, sC>>
    /\ mParentScopes = <<sB, sA>>
    /\ mResult = "true"

====
